---- MODULE Spec2Model ----
(***************************************************************************)
(* A model of the read-classification core of the rna_pipeline package:   *)
(*   - the Assignment Classifier   (featurecounts.parseAssignments)        *)
(*   - the Record Partitioner      (assign_split._write_filtered_fastq,    *)
(*                                  build_sequenceA/Ua_for_sample)         *)
(*   - the Best-Hit Resolver       (blast_parser.filterAndSummarize)       *)
(*   - the Search-Input Builder    (blast_runner.build_unassigned_fasta)   *)
(* Text is modelled as tuples of one-character strings, a file as a tuple  *)
(* of lines, and an absent value (None, a missing file) as a record whose  *)
(* "some" field is FALSE.                                                  *)
(***************************************************************************)
EXTENDS Integers, Sequences, FiniteSets, TLC

VARIABLES
    \* Classifier
    fcFiles,        \* fcResult.perSampleAssignmentFiles: <<[sampleId, bam]>>
    assignments,    \* Optional dict sampleId -> SampleAssignments (the return value)
    cpc,            \* "start", "done" or the name of the exception raised
    \* Partitioner
    inFastq,        \* Optional file: the source read container
    keepIds,        \* Optional set: the keep_ids argument
    outFastq,       \* Optional file written by _write_filtered_fastq
    written,        \* its return value
    ppc,            \* "start", "done" or the name of the exception raised
    \* Classifier + Partitioner pipeline
    seqA,           \* Optional file <sample>.sequenceA.fastq
    seqUa,          \* Optional file <sample>.sequenceUa.fastq
    splitA,         \* result of _write_filtered_fastq(in, out, assignedIds)
    splitUa,        \* result of _write_filtered_fastq(in, out, unassignedIds)
    sampleOutputs,  \* the sample_outputs argument of build_sequence*_for_sample
    spc,            \* position in the pipeline scenario
    \* Best-Hit Resolver and Summary Aggregator
    blastTab,       \* the lines of the tabular hit file
    thresholds,     \* [minPident, minQcov, maxEvalue]
    matchOut,       \* Optional file matchedSequences.tsv
    summaryOut,     \* Optional file summaryPerSample.tsv
    rpc,            \* "start", "done" or the name of the exception raised
    \* Search-Input Builder
    srcFiles,       \* the files the glob pattern matches: path -> Optional file
    sampleSize,     \* args.sample_size, the cap the caller asks for
    combinedFasta,  \* Optional file sequenceUa_combined.fasta
    bpc             \* "start", "done" or the name of the exception raised

classVars == <<fcFiles, assignments, cpc>>
partVars == <<inFastq, keepIds, outFastq, written, ppc>>
splitVars == <<seqA, seqUa, splitA, splitUa, sampleOutputs, spc>>
resVars == <<blastTab, thresholds, matchOut, summaryOut, rpc>>
buildVars == <<srcFiles, sampleSize, combinedFasta, bpc>>
vars == <<classVars, partVars, splitVars, resVars, buildVars>>

\* ------------------------------------------------------------------ bounds
MaxBam == 3          \* records in a BAM
MaxRecords == 3      \* complete records in a read container
MaxLines == 3        \* lines in a tabular hit file
MaxSrcRecords == 2   \* records in one source file of the Builder
MaxCap == 3          \* the largest cap the caller asks for
MaxSummaryLines == 4 \* hit lines in a stream for the summary
MaxSamples == 2      \* samples in one call of parseAssignments

\* ------------------------------------------------------------ optional values
None == [some |-> FALSE]
Some(v) == [some |-> TRUE, val |-> v]

\* ----------------------------------------------------------------- strings
NL == "\n"
Whitespace == {" ", "\t", NL}

RECURSIVE lstrip(_)
lstrip(s) ==
    IF s = <<>> THEN s
    ELSE IF Head(s) \in Whitespace THEN lstrip(Tail(s)) ELSE s

RECURSIVE rstrip(_)
rstrip(s) ==
    IF s = <<>> THEN s
    ELSE IF s[Len(s)] \in Whitespace THEN rstrip(SubSeq(s, 1, Len(s) - 1)) ELSE s

\* str.strip()
strip(s) == rstrip(lstrip(s))

\* the longest prefix of s without whitespace
RECURSIVE TokenPrefix(_)
TokenPrefix(s) ==
    IF s = <<>> \/ Head(s) \in Whitespace THEN <<>>
    ELSE <<Head(s)>> \o TokenPrefix(Tail(s))

\* str.split(): the whitespace-delimited tokens of s
RECURSIVE split(_)
split(s) ==
    LET t == lstrip(s)
        tok == TokenPrefix(t)
    IN  IF t = <<>> THEN <<>>
        ELSE <<tok>> \o split(SubSeq(t, Len(tok) + 1, Len(t)))

\* str.startswith(c) for a one-character c
startswith(s, c) == s /= <<>> /\ s[1] = c

\* ----------------------------------------------------------------- read ids
R1 == <<"r", "1">>
R2 == <<"r", "2">>
R3 == <<"r", "3">>
ReadIds == {R1, R2, R3}

\* ---------------------------------------------------- Assignment Classifier
AssignmentCategory ==
    {"ASSIGNED", "UNASSIGNED_UNMAPPED", "UNASSIGNED_NO_FEATURES",
     "UNASSIGNED_MAPPING_QUALITY", "UNASSIGNED_AMBIGUITY"}

\* the XS tag values featureCounts writes, and one it does not
KnownTags ==
    {"Assigned", "Unassigned_Unmapped", "Unassigned_NoFeatures",
     "Unassigned_MappingQuality", "Unassigned_Ambiguous"}
XSTags == {Some(t) : t \in KnownTags \cup {"Unassigned_Overlapping_Length"}} \cup {None}

\* one alignment record: query_name and the optional XS tag
AlignedRead(q, xs) == [query_name |-> q, XS |-> xs]

SeqsUpTo(S, n) == UNION {[1..k -> S] : k \in 0..n}

\* tag == "<text>" for tag = read.get_tag("XS") if read.has_tag("XS") else None
TagIs(tag, text) == tag.some /\ tag.val = text

Incr(counts, cat) == [counts EXCEPT ![cat] = @ + 1]

\* the sets and counters at the start of a sample
EmptySample ==
    [assignedIds |-> {}, unassignedIds |-> {},
     categoryCounts |-> [cat \in AssignmentCategory |-> 0]]

\* the loop body with a final "else" that counts any other tag, and no tag,
\* as UNASSIGNED_NO_FEATURES
ClassifyReadCountsOther(sa, read) ==
    LET readId == read.query_name
        tag == read.XS
    IN  IF TagIs(tag, "Assigned")
        THEN [sa EXCEPT !.assignedIds = @ \cup {readId},
                        !.categoryCounts = Incr(@, "ASSIGNED")]
        ELSE [sa EXCEPT
                !.unassignedIds = @ \cup {readId},
                !.categoryCounts =
                    IF TagIs(tag, "Unassigned_Unmapped")
                        THEN Incr(@, "UNASSIGNED_UNMAPPED")
                    ELSE IF TagIs(tag, "Unassigned_MappingQuality")
                        THEN Incr(@, "UNASSIGNED_MAPPING_QUALITY")
                    ELSE IF TagIs(tag, "Unassigned_Ambiguous")
                        THEN Incr(@, "UNASSIGNED_AMBIGUITY")
                    ELSE Incr(@, "UNASSIGNED_NO_FEATURES")]

\* the body of "for read in bam"
ClassifyRead(sa, read) ==
    LET readId == read.query_name
        tag == read.XS
    IN  IF TagIs(tag, "Assigned")
        THEN [sa EXCEPT !.assignedIds = @ \cup {readId},
                        !.categoryCounts = Incr(@, "ASSIGNED")]
        ELSE [sa EXCEPT
                !.unassignedIds = @ \cup {readId},
                !.categoryCounts =
                    IF TagIs(tag, "Unassigned_Unmapped")
                        THEN Incr(@, "UNASSIGNED_UNMAPPED")
                    ELSE IF TagIs(tag, "Unassigned_NoFeatures")
                        THEN Incr(@, "UNASSIGNED_NO_FEATURES")
                    ELSE IF TagIs(tag, "Unassigned_MappingQuality")
                        THEN Incr(@, "UNASSIGNED_MAPPING_QUALITY")
                    ELSE IF TagIs(tag, "Unassigned_Ambiguous")
                        THEN Incr(@, "UNASSIGNED_AMBIGUITY")
                    ELSE @]

\* "for read in bam" from record i on
RECURSIVE ClassifyFrom(_, _, _)
ClassifyFrom(sa, reads, i) ==
    IF i > Len(reads) THEN sa
    ELSE ClassifyFrom(ClassifyRead(sa, reads[i]), reads, i + 1)

\* one sample's SampleAssignments
ClassifySample(reads) == ClassifyFrom(EmptySample, reads, 1)

\* the loop over the samples with a missing BAM passed over ("continue")
RECURSIVE ParseFromSkipMissing(_, _, _)
ParseFromSkipMissing(files, i, acc) ==
    IF i > Len(files) THEN [raised |-> "", result |-> Some(acc)]
    ELSE IF ~files[i].bam.some
        THEN ParseFromSkipMissing(files, i + 1, acc)
    ELSE LET sid == files[i].sampleId
             sa == ClassifySample(files[i].bam.val)
         IN  ParseFromSkipMissing(files, i + 1,
                 [s \in DOMAIN acc \cup {sid} |-> IF s = sid THEN sa ELSE acc[s]])

\* the loop over fcResult.perSampleAssignmentFiles from entry i on, with the
\* dict built so far; a missing BAM raises and nothing is returned
RECURSIVE ParseFrom(_, _, _)
ParseFrom(files, i, acc) ==
    IF i > Len(files) THEN [raised |-> "", result |-> Some(acc)]
    ELSE IF ~files[i].bam.some
        THEN [raised |-> "FileNotFoundError", result |-> None]
    ELSE LET sid == files[i].sampleId
             sa == ClassifySample(files[i].bam.val)
         IN  ParseFrom(files, i + 1,
                 [s \in DOMAIN acc \cup {sid} |-> IF s = sid THEN sa ELSE acc[s]])

EmptyDict == [s \in {} |-> EmptySample]

parseAssignments ==
    /\ cpc = "start"
    /\ LET r == ParseFrom(fcFiles, 1, EmptyDict)
       IN  /\ assignments' = r.result
           /\ cpc' = IF r.raised = "" THEN "done" ELSE r.raised
    /\ UNCHANGED fcFiles

\* ------------------------------------------------------- Record Partitioner
\* a line of text ending in a newline
Line(chars) == chars \o <<NL>>

\* 4-line records: header, sequence, separator, quality
FastqRecords ==
    { <<Line(<<"@">> \o R1), Line(<<"A">>), Line(<<"+">>), Line(<<"I">>)>>,
      <<Line(<<"@">> \o R2 \o <<" ", "x">>), Line(<<"C">>), Line(<<"+">>), Line(<<"J">>)>>,
      <<Line(<<"@">> \o R3), Line(<<"G">>), Line(<<"+">>), Line(<<"I">>)>>,
      <<Line(<<"@">> \o R1 \o <<"\t", "y">>), Line(<<"T">>), Line(<<"+">>), Line(<<"K">>)>> }

\* the lines of a tuple of records
RECURSIVE Flatten(_)
Flatten(recs) == IF recs = <<>> THEN <<>> ELSE Head(recs) \o Flatten(Tail(recs))

\* the records with a ReadID of their own
DistinctIdRecords == {r \in FastqRecords : "y" \notin {r[1][i] : i \in 1..Len(r[1])}}

\* read containers of complete records
CompleteFastqs == {Flatten(recs) : recs \in SeqsUpTo(FastqRecords, MaxRecords)}

\* a container cut inside its last record
TruncatedFastqs ==
    {f \o SubSeq(r, 1, k) : f \in CompleteFastqs, r \in {<<Line(<<"@">> \o R1), Line(<<"A">>), Line(<<"+">>), Line(<<"I">>)>>}, k \in 1..3}

\* file.readline() at line number pos (1-based): "" at end of file
readline(lines, pos) == IF pos <= Len(lines) THEN lines[pos] ELSE <<>>

\* mutant: the whole header after the marker is taken as the id (no split)
extract_read_id_whole_header(header) ==
    LET h1 == strip(header)
        h2 == IF startswith(h1, "@") THEN Tail(h1) ELSE h1
    IN  IF h2 = <<>> THEN [raised |-> "IndexError", id |-> <<>>]
        ELSE [raised |-> "", id |-> h2]

\* _extract_read_id_from_header: [raised, id]; header.split()[0] raises
\* IndexError when the header holds no token
extract_read_id_from_header(header) ==
    LET h1 == strip(header)
        h2 == IF startswith(h1, "@") THEN Tail(h1) ELSE h1
        toks == split(h2)
    IN  IF toks = <<>> THEN [raised |-> "IndexError", id |-> <<>>]
        ELSE [raised |-> "", id |-> toks[1]]

\* mutant: the loop also stops when no line follows the record just read, so
\* the last record of the container is never written
RECURSIVE FilterLoopDropLast(_, _, _, _, _)
FilterLoopDropLast(inh, pos, keep_ids, outh, n) ==
    LET h == readline(inh, pos)
        s == readline(inh, pos + 1)
        p == readline(inh, pos + 2)
        q == readline(inh, pos + 3)
        rid == extract_read_id_from_header(h)
    IN  IF h = <<>> \/ q = <<>> \/ readline(inh, pos + 4) = <<>>
            THEN [raised |-> "", out |-> Some(outh), written |-> n]
        ELSE IF rid.raised /= ""
            THEN [raised |-> rid.raised, out |-> Some(outh), written |-> n]
        ELSE IF rid.id \in keep_ids
            THEN FilterLoopDropLast(inh, pos + 4, keep_ids, outh \o <<h, s, p, q>>, n + 1)
        ELSE FilterLoopDropLast(inh, pos + 4, keep_ids, outh, n)

\* the loop without "if not q: break": a record cut short is written as far
\* as it was read (writing "" adds no line)
RECURSIVE FilterLoopKeepsPartial(_, _, _, _, _)
FilterLoopKeepsPartial(inh, pos, keep_ids, outh, n) ==
    LET h == readline(inh, pos)
        s == readline(inh, pos + 1)
        p == readline(inh, pos + 2)
        q == readline(inh, pos + 3)
        rid == extract_read_id_from_header(h)
    IN  IF h = <<>> THEN [raised |-> "", out |-> Some(outh), written |-> n]
        ELSE IF rid.raised /= ""
            THEN [raised |-> rid.raised, out |-> Some(outh), written |-> n]
        ELSE IF rid.id \in keep_ids
            THEN FilterLoopKeepsPartial(inh, pos + 4, keep_ids,
                     outh \o SelectSeq(<<h, s, p, q>>, LAMBDA l : l /= <<>>), n + 1)
        ELSE FilterLoopKeepsPartial(inh, pos + 4, keep_ids, outh, n)

\* the "while True" loop of _write_filtered_fastq from line pos on, with the
\* lines written so far
RECURSIVE FilterLoop(_, _, _, _, _)
FilterLoop(inh, pos, keep_ids, outh, n) ==
    LET h == readline(inh, pos)
        s == readline(inh, pos + 1)
        p == readline(inh, pos + 2)
        q == readline(inh, pos + 3)
        rid == extract_read_id_from_header(h)
    IN  IF h = <<>> THEN [raised |-> "", out |-> Some(outh), written |-> n]
        ELSE IF q = <<>> THEN [raised |-> "", out |-> Some(outh), written |-> n]
        ELSE IF rid.raised /= ""
            THEN [raised |-> rid.raised, out |-> Some(outh), written |-> n]
        ELSE IF rid.id \in keep_ids
            THEN FilterLoop(inh, pos + 4, keep_ids, outh \o <<h, s, p, q>>, n + 1)
        ELSE FilterLoop(inh, pos + 4, keep_ids, outh, n)

\* _write_filtered_fastq without the "keep_ids is None" branch: the first
\* record read reaches "rid in keep_ids" with None
write_filtered_fastq_no_none_branch(in_fastq, keep_ids) ==
    IF ~in_fastq.some THEN [raised |-> "", out |-> Some(<<>>), written |-> 0]
    ELSE IF ~keep_ids.some
        THEN IF Len(in_fastq.val) < 4
                 THEN [raised |-> "", out |-> Some(<<>>), written |-> 0]
             ELSE [raised |-> "TypeError", out |-> Some(<<>>), written |-> 0]
    ELSE FilterLoop(in_fastq.val, 1, keep_ids.val, <<>>, 0)

\* _write_filtered_fastq(in_fastq, out_fastq, keep_ids): the output file and
\* the return value
write_filtered_fastq(in_fastq, keep_ids) ==
    IF ~keep_ids.some THEN [raised |-> "", out |-> Some(<<>>), written |-> 0]
    ELSE IF ~in_fastq.some THEN [raised |-> "", out |-> Some(<<>>), written |-> 0]
    ELSE FilterLoop(in_fastq.val, 1, keep_ids.val, <<>>, 0)

WriteFilteredFastq ==
    /\ ppc = "start"
    /\ LET r == write_filtered_fastq(inFastq, keepIds)
       IN  /\ outFastq' = r.out
           /\ written' = r.written
           /\ ppc' = IF r.raised = "" THEN "done" ELSE r.raised
    /\ UNCHANGED <<inFastq, keepIds>>

\* ------------------------------------------- sequenceA / sequenceUa builders
\* the attributes of the module rna_pipeline.utils
UtilsAttrs ==
    {"Path", "subprocess", "sys", "logging", "yaml", "getLogger", "runCmd",
     "ensureDir", "loadReferenceConfig", "subDir"}

\* hasattr(obj, name) for an object modelled as a record
hasattr(obj, name) == name \in DOMAIN obj

\* the two forms of sample_outputs: STAR's StarSampleOutputs dataclass (its
\* fields name the files), or the path of the read container itself
StarSampleOutputs ==
    [isPath |-> FALSE, fields |-> {"bam", "unmappedFastq1", "unmappedFastq2"}]
FastqPath == [isPath |-> TRUE, fields |-> {}]

\* _get_input_fastq_from_sample_outputs: whether a path is found (every path
\* of the model names the one source container inFastq)
get_input_fastq_from_sample_outputs(sample_outputs) ==
    LET candidates ==
            {"fastq", "fastq1", "reads", "input_fastq", "input_reads",
             "unmapped_fastq", "unmapped_out_mate1", "Unmapped.out.mate1",
             "Unmapped", "unmapped"}
    IN  \/ candidates \cap sample_outputs.fields /= {}
        \/ sample_outputs.isPath

\* the attribute probes of _get_assigned_sets, for a dataclass instance (the
\* isinstance(.., dict) branch does not apply): a later probe that finds its
\* attribute overrides an earlier one
get_assigned_sets(sample_assignments) ==
    LET a1 == IF hasattr(sample_assignments, "assigned")
                  THEN Some(sample_assignments["assigned"]) ELSE None
        a2 == IF hasattr(sample_assignments, "assigned_reads")
                  THEN Some(sample_assignments["assigned_reads"]) ELSE a1
        u1 == IF hasattr(sample_assignments, "unassigned")
                  THEN Some(sample_assignments["unassigned"]) ELSE None
        u2 == IF hasattr(sample_assignments, "unassigned_reads")
                  THEN Some(sample_assignments["unassigned_reads"]) ELSE u1
        hasMap == hasattr(sample_assignments, "assignments")
        map == sample_assignments["assignments"]
        a3 == IF hasMap
                  THEN Some({k \in DOMAIN map : map[k] /= "" /\ map[k] /= "unassigned"})
                  ELSE a2
        u3 == IF hasMap
                  THEN Some({k \in DOMAIN map : map[k] = "" \/ map[k] = "unassigned"})
                  ELSE u2
        c == IF hasattr(sample_assignments, "counts")
                 THEN Some(sample_assignments["counts"]) ELSE None
    IN  [assigned |-> a3, unassigned |-> u3, counts |-> c]

\* the common body of build_sequenceA_for_sample and
\* build_sequenceUa_for_sample, given the set it selected: utils.ensure_dir
\* first, then the empty file when no input is found, else the filter
build_sequence_for_sample(sample_outputs, keep_ids, in_fastq) ==
    IF "ensure_dir" \notin UtilsAttrs
        THEN [raised |-> "AttributeError", out |-> None, written |-> 0]
    ELSE IF ~get_input_fastq_from_sample_outputs(sample_outputs)
        THEN [raised |-> "", out |-> Some(<<>>), written |-> 0]
    ELSE write_filtered_fastq(in_fastq, keep_ids)

build_sequenceA_for_sample(sample_outputs, sample_assignments, in_fastq) ==
    build_sequence_for_sample(sample_outputs,
        get_assigned_sets(sample_assignments).assigned, in_fastq)

build_sequenceUa_for_sample(sample_outputs, sample_assignments, in_fastq) ==
    build_sequence_for_sample(sample_outputs,
        get_assigned_sets(sample_assignments).unassigned, in_fastq)

\* the sample of the pipeline scenario
SampleId == "s1"
TheSample == assignments.val[SampleId]

\* the Partitioner called on the source with the Classifier's assigned set
PartitionAssigned ==
    /\ cpc = "done" /\ spc = "start"
    /\ splitA' = write_filtered_fastq(inFastq, Some(TheSample.assignedIds))
    /\ spc' = "splitA"
    /\ UNCHANGED <<classVars, partVars, resVars, buildVars, seqA, seqUa, splitUa, sampleOutputs>>

\* ... and with its unassigned set
PartitionUnassigned ==
    /\ spc = "splitA"
    /\ splitUa' = write_filtered_fastq(inFastq, Some(TheSample.unassignedIds))
    /\ spc' = "splitUa"
    /\ UNCHANGED <<classVars, partVars, resVars, buildVars, seqA, seqUa, splitA, sampleOutputs>>

BuildSequenceA ==
    /\ spc = "splitUa"
    /\ seqA' = build_sequenceA_for_sample(sampleOutputs, TheSample, inFastq)
    /\ spc' = "builtA"
    /\ UNCHANGED <<classVars, partVars, resVars, buildVars, seqUa, splitA, splitUa, sampleOutputs>>

BuildSequenceUa ==
    /\ spc = "builtA"
    /\ seqUa' = build_sequenceUa_for_sample(sampleOutputs, TheSample, inFastq)
    /\ spc' = "builtUa"
    /\ UNCHANGED <<classVars, partVars, resVars, buildVars, seqA, splitA, splitUa, sampleOutputs>>

\* ---------------------------------------------------------- Best-Hit Resolver
\* A line of the hit file is the tuple of its tab-separated fields followed by
\* the newline; a field is the tuple of its "_"-separated segments.  Numbers
\* are held in millionths (1e-6 is 1, 90.0 is 90000000).  The column indices
\* are those of the source plus one: tuples are indexed from 1.
IDX_QSEQID == 1
IDX_PIDENT == 3
IDX_EVALUE == 11
IDX_BITSCORE == 12
IDX_QCOVS == 13
IDX_STITLE == 14

Eol == <<NL>>
Field(text) == <<text>>

\* float(text): [raised, val]; ValueError for text that is no number
float(field) ==
    CASE field = Field("100") -> [raised |-> "", val |-> 100000000]
      [] field = Field("90.0") -> [raised |-> "", val |-> 90000000]
      [] field = Field("90") -> [raised |-> "", val |-> 90000000]
      [] field = Field("50") -> [raised |-> "", val |-> 50000000]
      [] field = Field("40") -> [raised |-> "", val |-> 40000000]
      [] field = Field("200") -> [raised |-> "", val |-> 200000000]
      [] field = Field("1e-6") -> [raised |-> "", val |-> 1]
      [] field = Field("1e-5") -> [raised |-> "", val |-> 10]
      [] field = Field("1e-3") -> [raised |-> "", val |-> 1000]
      [] OTHER -> [raised |-> "ValueError", val |-> 0]

\* a field of whitespace only
IsBlankField(f) == f \in {Field(""), Field(" "), Eol}

\* line.strip(): the newline and the whitespace-only fields at both ends go
RECURSIVE StripLine(_)
StripLine(line) ==
    IF line = <<>> THEN line
    ELSE IF IsBlankField(Head(line)) THEN StripLine(Tail(line))
    ELSE IF IsBlankField(line[Len(line)])
        THEN StripLine(SubSeq(line, 1, Len(line) - 1))
    ELSE line

\* line.startswith('#')
IsCommentLine(line) ==
    line /= <<>> /\ Head(line) \in {Field("# BLASTN 2.12.0+"), Field("# 0 hits found")}

\* the index of key in the dict (0 when absent); a dict keeps insertion order
\* and is held as the tuple of its entries
KeyIndex(dict, key) ==
    IF \E i \in 1..Len(dict) : dict[i].key = key
        THEN CHOOSE i \in 1..Len(dict) : dict[i].key = key
        ELSE 0

\* mutant: the identity threshold is exclusive
passes_filters_strict(pident, qcovs, evalue, th) ==
    pident > th.minPident /\ qcovs >= th.minQcov /\ evalue <= th.maxEvalue

\* pident >= minPident and qcovs >= minQcov and evalue <= maxEvalue
passes_filters(pident, qcovs, evalue, th) ==
    pident >= th.minPident /\ qcovs >= th.minQcov /\ evalue <= th.maxEvalue

\* mutant: a passing hit of a query already in the table is added as one
\* more entry instead of being compared with the retained one
update_best_append(bestHits, qseqid, stripped, bitscore) ==
    Append(bestHits, [key |-> qseqid, line |-> stripped, bitscore |-> bitscore])

\* the comparison of line 76 with ">=": a hit of equal bit score replaces
\* the retained one
update_best_or_equal(bestHits, qseqid, stripped, bitscore) ==
    LET i == KeyIndex(bestHits, qseqid)
        entry == [key |-> qseqid, line |-> stripped, bitscore |-> bitscore]
    IN  IF i = 0 THEN Append(bestHits, entry)
        ELSE IF bitscore >= bestHits[i].bitscore
            THEN [bestHits EXCEPT ![i] = entry]
        ELSE bestHits

\* lines 69-77: the table after a passing hit
update_best(bestHits, qseqid, stripped, bitscore) ==
    LET i == KeyIndex(bestHits, qseqid)
        entry == [key |-> qseqid, line |-> stripped, bitscore |-> bitscore]
    IN  IF i = 0 THEN Append(bestHits, entry)
        ELSE IF bitscore > bestHits[i].bitscore
            THEN [bestHits EXCEPT ![i] = entry]
        ELSE bestHits

\* the body of "for line in infile": [raised, bestHits]
ProcessLine(bestHits, line, th) ==
    LET columns == StripLine(line)
        pident == float(columns[IDX_PIDENT])
        qcovs == float(columns[IDX_QCOVS])
        evalue == float(columns[IDX_EVALUE])
        bitscore == float(columns[IDX_BITSCORE])
        qseqid == columns[IDX_QSEQID]
    IN  IF IsCommentLine(line) \/ StripLine(line) = <<>>
            THEN [raised |-> "", bestHits |-> bestHits]
        ELSE IF Len(columns) < 14 THEN [raised |-> "", bestHits |-> bestHits]
        ELSE IF \E x \in {pident, qcovs, evalue, bitscore} : x.raised /= ""
            THEN [raised |-> "ValueError", bestHits |-> bestHits]
        ELSE IF passes_filters(pident.val, qcovs.val, evalue.val, th)
            THEN [raised |-> "",
                  bestHits |-> update_best(bestHits, qseqid, columns, bitscore.val)]
        ELSE [raised |-> "", bestHits |-> bestHits]

\* "for line in infile" from line i on
RECURSIVE ReadHits(_, _, _, _)
ReadHits(lines, i, bestHits, th) ==
    IF i > Len(lines) THEN [raised |-> "", bestHits |-> bestHits]
    ELSE LET r == ProcessLine(bestHits, lines[i], th)
         IN  IF r.raised /= "" THEN r ELSE ReadHits(lines, i + 1, r.bestHits, th)

MatchHeader ==
    <<Field("qseqid"), Field("sseqid"), Field("pident"), Field("length"),
      Field("mismatch"), Field("gapopen"), Field("qstart"), Field("qend"),
      Field("sstart"), Field("send"), Field("evalue"), Field("bitscore"),
      Field("qcovs"), Field("stitle"), Eol>>

SummaryHeader == <<Field("sampleID"), Field("stitle"), Field("count"), Eol>>

\* getSampleFromReadID: the text before the first "_"
getSampleFromReadID(readID) ==
    IF Len(readID) > 1 THEN Field(readID[1]) ELSE Field("Unknown Sample")

\* CountSummary with "summaryCounts[key] += 1" left out for a key already seen
RECURSIVE CountSummaryNoIncrement(_, _, _)
CountSummaryNoIncrement(bestHits, i, summaryCounts) ==
    IF i > Len(bestHits) THEN summaryCounts
    ELSE LET columns == bestHits[i].line
             key == <<getSampleFromReadID(columns[IDX_QSEQID]), columns[IDX_STITLE]>>
             k == KeyIndex(summaryCounts, key)
         IN  CountSummaryNoIncrement(bestHits, i + 1,
                 IF k = 0 THEN Append(summaryCounts, [key |-> key, count |-> 1])
                 ELSE summaryCounts)

\* lines 107-123: summaryCounts over the entries of bestHits from entry i on
RECURSIVE CountSummary(_, _, _)
CountSummary(bestHits, i, summaryCounts) ==
    IF i > Len(bestHits) THEN summaryCounts
    ELSE LET columns == bestHits[i].line
             key == <<getSampleFromReadID(columns[IDX_QSEQID]), columns[IDX_STITLE]>>
             k == KeyIndex(summaryCounts, key)
         IN  CountSummary(bestHits, i + 1,
                 IF k = 0 THEN Append(summaryCounts, [key |-> key, count |-> 1])
                 ELSE [summaryCounts EXCEPT ![k].count = @ + 1])

\* the order of Python strings, for the sample ids of the model
StrRank(field) ==
    CASE field = Field("S1") -> 1
      [] field = Field("S2") -> 2
      [] field = Field("Unknown Sample") -> 3

\* the sort key (item[0][0], -item[1]) compared: a sorts strictly before b
SortsBefore(a, b) ==
    \/ StrRank(a.key[1]) < StrRank(b.key[1])
    \/ StrRank(a.key[1]) = StrRank(b.key[1]) /\ -a.count < -b.count

\* an insertion that is not stable: the item goes before the items it
\* compares equal to
RECURSIVE InsertSortedBeforeEqual(_, _)
InsertSortedBeforeEqual(sortedItems, item) ==
    IF sortedItems = <<>> THEN <<item>>
    ELSE IF ~SortsBefore(Head(sortedItems), item) THEN <<item>> \o sortedItems
    ELSE <<Head(sortedItems)>> \o InsertSortedBeforeEqual(Tail(sortedItems), item)

\* sorted(): stable, an item goes after the items that do not sort after it
RECURSIVE InsertSorted(_, _)
InsertSorted(sortedItems, item) ==
    IF sortedItems = <<>> THEN <<item>>
    ELSE IF SortsBefore(item, Head(sortedItems)) THEN <<item>> \o sortedItems
    ELSE <<Head(sortedItems)>> \o InsertSorted(Tail(sortedItems), item)

RECURSIVE sorted(_)
sorted(items) ==
    IF items = <<>> THEN <<>>
    ELSE InsertSorted(sorted(SubSeq(items, 1, Len(items) - 1)), items[Len(items)])

\* "{}".format(count)
FormatCount(n) == Field(<<"0", "1", "2", "3", "4", "5", "6", "7", "8", "9">>[n + 1])

\* filterAndSummarize returning on an empty bestHits before any file is opened
filterAndSummarizeNoFilesWhenEmpty(lines, th) ==
    LET r == ReadHits(lines, 1, <<>>, th)
        bestHits == r.bestHits
        summary == sorted(CountSummary(bestHits, 1, <<>>))
    IN  IF r.raised /= ""
            THEN [raised |-> r.raised, matchOut |-> None, summaryOut |-> None]
        ELSE IF bestHits = <<>>
            THEN [raised |-> "", matchOut |-> None, summaryOut |-> None]
        ELSE [raised |-> "",
              matchOut |-> Some(<<MatchHeader>> \o
                  [i \in 1..Len(bestHits) |-> bestHits[i].line \o <<Eol>>]),
              summaryOut |-> Some(<<SummaryHeader>> \o
                  [i \in 1..Len(summary) |->
                      <<summary[i].key[1], summary[i].key[2],
                        FormatCount(summary[i].count), Eol>>])]

\* filterAndSummarize: the two files written, or the exception raised while
\* reading (no file is written then)
filterAndSummarize(lines, th) ==
    LET r == ReadHits(lines, 1, <<>>, th)
        bestHits == r.bestHits
        summary == sorted(CountSummary(bestHits, 1, <<>>))
    IN  IF r.raised /= ""
            THEN [raised |-> r.raised, matchOut |-> None, summaryOut |-> None]
        ELSE IF bestHits = <<>>
            THEN [raised |-> "", matchOut |-> Some(<<MatchHeader>>),
                  summaryOut |-> Some(<<SummaryHeader>>)]
        ELSE [raised |-> "",
              matchOut |-> Some(<<MatchHeader>> \o
                  [i \in 1..Len(bestHits) |-> bestHits[i].line \o <<Eol>>]),
              summaryOut |-> Some(<<SummaryHeader>> \o
                  [i \in 1..Len(summary) |->
                      <<summary[i].key[1], summary[i].key[2],
                        FormatCount(summary[i].count), Eol>>])]

FilterAndSummarize ==
    /\ rpc = "start"
    /\ LET r == filterAndSummarize(blastTab, thresholds)
       IN  /\ matchOut' = r.matchOut
           /\ summaryOut' = r.summaryOut
           /\ rpc' = IF r.raised = "" THEN "done" ELSE r.raised
    /\ UNCHANGED <<blastTab, thresholds>>

\* the hit lines of the model: query, identity, e-value, bit score, coverage
\* and subject title vary, the other eight fields are fixed
Hit(q, pident, evalue, bitscore, qcovs, stitle) ==
    <<q, Field("gi|1|ref"), Field(pident), Field("100"), Field("0"), Field("0"),
      Field("1"), Field("100"), Field("1"), Field("100"), Field(evalue),
      Field(bitscore), Field(qcovs), Field(stitle), Eol>>

BlastLines ==
    { Hit(<<"S1", "r1">>, "100", "1e-5", "90", "100", "orgX"),
      Hit(<<"S1", "r1">>, "100", "1e-6", "90.0", "100", "orgY"),
      Hit(<<"S1", "r1">>, "100", "1e-3", "50", "100", "orgX"),
      Hit(<<"S1", "r1">>, "90.0", "1e-6", "200", "100", "orgX"),
      Hit(<<"S2", "r1">>, "100", "1e-5", "50", "50", "orgZ"),
      Hit(<<"S2", "r1">>, "100", "1e-6", "90", "40", "orgZ"),
      Hit(<<"r9">>, "100", "1e-6", "50", "100", "orgX"),
      <<Field("# BLASTN 2.12.0+"), Eol>>,
      <<Eol>>,
      <<<<"S1", "r1">>, Field("gi|1|ref"), Field("100"), Eol>> }

Thresholds ==
    [minPident : {90000000, 100000000}, minQcov : {50000000}, maxEvalue : {10, 1000}]

\* ------------------------------------------------------ Search-Input Builder
PathA == <<"A", ".", "f", "q">>
PathB == <<"B", ".", "f", "q">>

\* the order of Path objects, for the paths of the model
PathRank(path) == CASE path = PathA -> 1 [] path = PathB -> 2

\* the matched paths taken in descending order
RECURSIVE PathsDescending(_)
PathsDescending(paths) ==
    IF paths = {} THEN <<>>
    ELSE LET first == CHOOSE x \in paths : \A y \in paths : PathRank(x) >= PathRank(y)
         IN  <<first>> \o PathsDescending(paths \ {first})

\* sorted(Path().glob(input_pattern))
RECURSIVE SortedPaths(_)
SortedPaths(paths) ==
    IF paths = {} THEN <<>>
    ELSE LET first == CHOOSE x \in paths : \A y \in paths : PathRank(x) <= PathRank(y)
         IN  <<first>> \o SortedPaths(paths \ {first})

\* the "while True" loop over one source file from line pos on, with the
\* lines of the FASTA file written so far
RECURSIVE ConvertRecords(_, _, _)
ConvertRecords(fastq_in, pos, fasta_out) ==
    LET header == strip(readline(fastq_in, pos))
        seq == strip(readline(fastq_in, pos + 1))
        fasta_header == IF startswith(header, "@") THEN <<">">> \o Tail(header)
                        ELSE <<">">> \o header
    IN  IF readline(fastq_in, pos) = <<>> THEN fasta_out
        ELSE ConvertRecords(fastq_in, pos + 4,
                 fasta_out \o <<Line(fasta_header), Line(seq)>>)

\* "for fq in fastq_files" from file i on; a file that cannot be opened raises
\* and leaves the output as written so far
RECURSIVE ConvertFiles(_, _, _, _)
ConvertFiles(files, fastq_files, i, fasta_out) ==
    IF i > Len(fastq_files) THEN [raised |-> "", out |-> Some(fasta_out)]
    ELSE IF ~files[fastq_files[i]].some
        THEN [raised |-> "FileNotFoundError", out |-> Some(fasta_out)]
    ELSE ConvertFiles(files, fastq_files, i + 1,
             ConvertRecords(files[fastq_files[i]].val, 1, fasta_out))

\* build_unassigned_fasta(input_pattern, outdir)
build_unassigned_fasta(files) ==
    ConvertFiles(files, SortedPaths(DOMAIN files), 1, <<>>)

\* the parameters of build_unassigned_fasta
BuilderParams == {"input_pattern", "outdir"}

\* a call with keyword arguments: TypeError before the body runs when a
\* keyword names no parameter
call_build_unassigned_fasta(kwargs, files) ==
    IF ~(kwargs \subseteq BuilderParams)
        THEN [raised |-> "TypeError", out |-> None]
    ELSE build_unassigned_fasta(files)

\* the Builder called with its two parameters
BuildUnassignedFasta ==
    /\ bpc = "start"
    /\ LET r == call_build_unassigned_fasta({"input_pattern", "outdir"}, srcFiles)
       IN  /\ combinedFasta' = r.out
           /\ bpc' = IF r.raised = "" THEN "done" ELSE r.raised
    /\ UNCHANGED <<srcFiles, sampleSize>>

\* step 1 of run_probe_pipeline: the Builder called with the cap
RunProbePipeline ==
    /\ bpc = "start"
    /\ LET r == call_build_unassigned_fasta(
                    {"input_pattern", "outdir", "sample_size"}, srcFiles)
       IN  /\ combinedFasta' = r.out
           /\ bpc' = IF r.raised = "" THEN "probe done" ELSE r.raised
    /\ UNCHANGED <<srcFiles, sampleSize>>

\* Path().glob(input_pattern): the matched paths in an order the file
\* system chooses
Enumerations(paths) ==
    {e \in [1..Cardinality(paths) -> paths] :
        \A i, j \in 1..Cardinality(paths) : i /= j => e[i] /= e[j]}

RECURSIVE InsertPath(_, _)
InsertPath(sortedPaths, path) ==
    IF sortedPaths = <<>> THEN <<path>>
    ELSE IF PathRank(path) < PathRank(Head(sortedPaths)) THEN <<path>> \o sortedPaths
    ELSE <<Head(sortedPaths)>> \o InsertPath(Tail(sortedPaths), path)

\* the enumerated paths left as the file system gave them
glob_unsorted(enumerated) == enumerated

\* sorted() over the paths as enumerated
RECURSIVE sorted_glob(_)
sorted_glob(enumerated) ==
    IF enumerated = <<>> THEN <<>>
    ELSE InsertPath(sorted_glob(SubSeq(enumerated, 1, Len(enumerated) - 1)),
                    enumerated[Len(enumerated)])

\* combined_fasta.open('w'): the file is created, or emptied when it exists
open_w(existing) == <<>>

\* build_unassigned_fasta run where an earlier run left its output, the
\* file system enumerating the matched paths in the given order
build_unassigned_fasta_again(files, enumerated, existing) ==
    ConvertFiles(files, sorted_glob(enumerated), 1, open_w(existing))

\* a second run of the Builder on the same source files
BuildAgain ==
    /\ bpc \in {"done", "FileNotFoundError"}
    /\ \E enumerated \in Enumerations(DOMAIN srcFiles) :
           LET r == build_unassigned_fasta_again(srcFiles, enumerated, combinedFasta)
           IN  /\ combinedFasta' = r.out
               /\ bpc' = IF r.raised = "" THEN "done again" ELSE "failed again"
    /\ UNCHANGED <<srcFiles, sampleSize>>

\* the source files: complete records, or a file that cannot be opened
SrcContents ==
    {Some(Flatten(recs)) : recs \in SeqsUpTo(DistinctIdRecords, MaxSrcRecords)} \cup {None}

\* ------------------------------------------------------------ specifications
NoResult == [raised |-> "", out |-> None, written |-> 0]

IdleClass == fcFiles = <<>> /\ assignments = None /\ cpc = "idle"
IdlePart ==
    /\ inFastq = None /\ keepIds = None /\ outFastq = None
    /\ written = 0 /\ ppc = "idle"
IdleSplit ==
    /\ seqA = NoResult /\ seqUa = NoResult /\ splitA = NoResult
    /\ splitUa = NoResult /\ sampleOutputs = FastqPath /\ spc = "idle"
IdleRes ==
    /\ blastTab = <<>> /\ thresholds = [minPident |-> 0, minQcov |-> 0, maxEvalue |-> 0]
    /\ matchOut = None /\ summaryOut = None /\ rpc = "idle"
IdleBuild ==
    /\ srcFiles = [x \in {} |-> None] /\ sampleSize = 0
    /\ combinedFasta = None /\ bpc = "idle"

\* BAMs over two read ids and every tag value
ClassBams ==
    SeqsUpTo({AlignedRead(q, xs) : q \in {R1, R2}, xs \in XSTags}, MaxBam)

InitClassify ==
    /\ fcFiles \in {<<[sampleId |-> SampleId, bam |-> Some(b)]>> : b \in ClassBams}
    /\ assignments = None
    /\ cpc = "start"
    /\ IdlePart /\ IdleSplit /\ IdleRes /\ IdleBuild

NextClassify == parseAssignments /\ UNCHANGED <<partVars, splitVars, resVars, buildVars>>

SpecClassify == InitClassify /\ [][NextClassify]_vars

\* several samples, each with a BAM that exists or not
SampleIds == <<"s1", "s2", "s3", "s4">>
SampleBams ==
    {Some(b) : b \in SeqsUpTo({AlignedRead(R1, Some("Assigned")),
                               AlignedRead(R1, Some("Unassigned_NoFeatures"))}, MaxBam)}
        \cup {None}

InitSamples ==
    /\ \E k \in 0..MaxSamples : \E bams \in [1..k -> SampleBams] :
           fcFiles = [i \in 1..k |-> [sampleId |-> SampleIds[i], bam |-> bams[i]]]
    /\ assignments = None
    /\ cpc = "start"
    /\ IdlePart /\ IdleSplit /\ IdleRes /\ IdleBuild

SpecSamples == InitSamples /\ [][NextClassify]_vars

InitPartition ==
    /\ inFastq \in {Some(f) : f \in CompleteFastqs \cup TruncatedFastqs} \cup {None}
    /\ keepIds \in {Some(k) : k \in SUBSET ReadIds} \cup {None}
    /\ outFastq = None
    /\ written = 0
    /\ ppc = "start"
    /\ IdleClass /\ IdleSplit /\ IdleRes /\ IdleBuild

NextPartition == WriteFilteredFastq /\ UNCHANGED <<classVars, splitVars, resVars, buildVars>>

SpecPartition == InitPartition /\ [][NextPartition]_vars

\* BAMs over three read ids, tagged Assigned or Unassigned_NoFeatures
SplitBams ==
    SeqsUpTo({AlignedRead(q, Some(t)) : q \in ReadIds,
                  t \in {"Assigned", "Unassigned_NoFeatures"}}, MaxBam)

InitSplit ==
    /\ fcFiles \in {<<[sampleId |-> SampleId, bam |-> Some(b)]>> : b \in SplitBams}
    /\ assignments = None
    /\ cpc = "start"
    /\ inFastq \in {Some(Flatten(recs)) : recs \in SeqsUpTo(DistinctIdRecords, MaxRecords)}
    /\ keepIds = None /\ outFastq = None /\ written = 0 /\ ppc = "idle"
    /\ seqA = NoResult /\ seqUa = NoResult /\ splitA = NoResult
    /\ splitUa = NoResult
    /\ sampleOutputs \in {StarSampleOutputs, FastqPath}
    /\ spc = "start"
    /\ IdleRes /\ IdleBuild

NextSplit ==
    \/ parseAssignments /\ UNCHANGED <<partVars, splitVars, resVars, buildVars>>
    \/ PartitionAssigned
    \/ PartitionUnassigned
    \/ BuildSequenceA
    \/ BuildSequenceUa

SpecSplit == InitSplit /\ [][NextSplit]_vars

InitResolve ==
    /\ blastTab \in SeqsUpTo(BlastLines, MaxLines)
    /\ thresholds \in Thresholds
    /\ matchOut = None /\ summaryOut = None
    /\ rpc = "start"
    /\ IdleClass /\ IdlePart /\ IdleSplit /\ IdleBuild

NextResolve ==
    FilterAndSummarize /\ UNCHANGED <<classVars, partVars, splitVars, buildVars>>

SpecResolve == InitResolve /\ [][NextResolve]_vars

\* hit streams for the summary: every hit passes the thresholds; queries of
\* two samples, a query with two "_", a query with none, and a second hit of
\* S1_r1 with a higher bit score and another subject title
SummaryLines ==
    { Hit(<<"S1", "r1">>, "100", "1e-6", "50", "100", "orgX"),
      Hit(<<"S1", "r2">>, "100", "1e-6", "50", "100", "orgX"),
      Hit(<<"S1", "r3">>, "100", "1e-6", "50", "100", "orgY"),
      Hit(<<"S2", "r1">>, "100", "1e-6", "50", "100", "orgZ"),
      Hit(<<"S1", "r1">>, "100", "1e-6", "90", "100", "orgZ"),
      Hit(<<"S2", "r1", "b">>, "100", "1e-6", "50", "100", "orgZ"),
      Hit(<<"r9">>, "100", "1e-6", "50", "100", "orgX") }

SummaryThresholds ==
    {[minPident |-> 90000000, minQcov |-> 50000000, maxEvalue |-> 1000]}

InitSummary ==
    /\ blastTab \in SeqsUpTo(SummaryLines, MaxSummaryLines)
    /\ thresholds \in SummaryThresholds
    /\ matchOut = None /\ summaryOut = None
    /\ rpc = "start"
    /\ IdleClass /\ IdlePart /\ IdleSplit /\ IdleBuild

SpecSummary == InitSummary /\ [][NextResolve]_vars

\* hit streams with lines that are no hit: a comment, a blank line, a line
\* of three fields, and 14-field lines with a number that does not parse
\* ("n/a") or is missing ("")
MalformedLines ==
    { Hit(<<"S1", "r1">>, "100", "1e-6", "90", "100", "orgX"),
      Hit(<<"S2", "r1">>, "100", "1e-6", "50", "100", "orgZ"),
      <<Field("# BLASTN 2.12.0+"), Eol>>,
      <<Eol>>,
      <<<<"S1", "r1">>, Field("gi|1|ref"), Field("100"), Eol>>,
      Hit(<<"S1", "r2">>, "n/a", "1e-6", "90", "100", "orgX"),
      Hit(<<"S1", "r3">>, "100", "", "90", "100", "orgY") }

InitMalformed ==
    /\ blastTab \in SeqsUpTo(MalformedLines, MaxLines)
    /\ thresholds \in SummaryThresholds
    /\ matchOut = None /\ summaryOut = None
    /\ rpc = "start"
    /\ IdleClass /\ IdlePart /\ IdleSplit /\ IdleBuild

SpecMalformed == InitMalformed /\ [][NextResolve]_vars

\* hit streams of passing candidates of one query that tie: equal bit score
\* and e-value (written "90" and "90.0"), equal bit score only, a higher
\* and a lower bit score; and a hit of a second query
TieLines ==
    { Hit(<<"S1", "r1">>, "100", "1e-6", "90", "100", "orgX"),
      Hit(<<"S1", "r1">>, "100", "1e-6", "90.0", "100", "orgY"),
      Hit(<<"S1", "r1">>, "100", "1e-6", "200", "100", "orgZ"),
      Hit(<<"S1", "r1">>, "100", "1e-5", "90", "100", "orgX"),
      Hit(<<"S1", "r1">>, "100", "1e-6", "50", "100", "orgY"),
      Hit(<<"S2", "r1">>, "100", "1e-6", "90", "100", "orgZ") }

InitTies ==
    /\ blastTab \in SeqsUpTo(TieLines, MaxLines)
    /\ thresholds \in SummaryThresholds
    /\ matchOut = None /\ summaryOut = None
    /\ rpc = "start"
    /\ IdleClass /\ IdlePart /\ IdleSplit /\ IdleBuild

SpecTies == InitTies /\ [][NextResolve]_vars

\* filterAndSummarize taken one step at a time, for a run that is stopped
\* on the way: the stream is read to its end before any file is opened
\* (lines 47-77), then matchedSequences.tsv is opened and written one line
\* per write call (83-87, 96-104), then the summary is written (126-135)
ReadStream ==
    /\ rpc = "start"
    /\ rpc' = LET r == ReadHits(blastTab, 1, <<>>, thresholds)
              IN  IF r.raised = "" THEN "read" ELSE r.raised
    /\ UNCHANGED <<blastTab, thresholds, matchOut, summaryOut>>

OpenMatchOut ==
    /\ rpc = "read"
    /\ matchOut' = Some(<<>>)
    /\ rpc' = "writing"
    /\ UNCHANGED <<blastTab, thresholds, summaryOut>>

WriteMatchLine ==
    /\ rpc = "writing"
    /\ LET full == filterAndSummarize(blastTab, thresholds).matchOut.val
       IN  /\ Len(matchOut.val) < Len(full)
           /\ matchOut' = Some(Append(matchOut.val, full[Len(matchOut.val) + 1]))
    /\ UNCHANGED <<blastTab, thresholds, summaryOut, rpc>>

WriteSummary ==
    /\ rpc = "writing"
    /\ LET r == filterAndSummarize(blastTab, thresholds)
       IN  /\ Len(matchOut.val) = Len(r.matchOut.val)
           /\ summaryOut' = r.summaryOut
    /\ rpc' = "done"
    /\ UNCHANGED <<blastTab, thresholds, matchOut>>

\* the caller's timeout: the process is stopped where it is
StopResolver ==
    /\ rpc \in {"read", "writing"}
    /\ rpc' = "stopped"
    /\ UNCHANGED <<blastTab, thresholds, matchOut, summaryOut>>

NextStop ==
    \/ ReadStream /\ UNCHANGED <<classVars, partVars, splitVars, buildVars>>
    \/ OpenMatchOut /\ UNCHANGED <<classVars, partVars, splitVars, buildVars>>
    \/ WriteMatchLine /\ UNCHANGED <<classVars, partVars, splitVars, buildVars>>
    \/ WriteSummary /\ UNCHANGED <<classVars, partVars, splitVars, buildVars>>
    \/ StopResolver /\ UNCHANGED <<classVars, partVars, splitVars, buildVars>>

SpecStop == InitResolve /\ [][NextStop]_vars

InitBuild ==
    /\ srcFiles \in UNION {[paths -> SrcContents] : paths \in SUBSET {PathA, PathB}}
    /\ sampleSize \in 1..MaxCap
    /\ combinedFasta = None
    /\ bpc = "start"
    /\ IdleClass /\ IdlePart /\ IdleSplit /\ IdleRes

NextBuild ==
    \/ BuildUnassignedFasta /\ UNCHANGED <<classVars, partVars, splitVars, resVars>>
    \/ RunProbePipeline /\ UNCHANGED <<classVars, partVars, splitVars, resVars>>

SpecBuild == InitBuild /\ [][NextBuild]_vars

NextRerun ==
    \/ NextBuild
    \/ BuildAgain /\ UNCHANGED <<classVars, partVars, splitVars, resVars>>

SpecRerun == InitBuild /\ [][NextRerun]_vars

\* ------------------------------------------------- what the claims speak of
\* The definitions below state the expected results on their own terms: by
\* position in the text, not through the operators that model the code.

\* the first whitespace-delimited token of b
FirstTokenOf(b) ==
    LET first == CHOOSE i \in 1..Len(b) :
                     b[i] \notin Whitespace /\ \A j \in 1..(i - 1) : b[j] \in Whitespace
        last == CHOOSE e \in first..Len(b) :
                    /\ \A j \in first..e : b[j] \notin Whitespace
                    /\ e = Len(b) \/ b[e + 1] \in Whitespace
    IN  SubSeq(b, first, last)

\* the ReadID of a header line: the marker dropped, then the first token
HeaderId(h) == FirstTokenOf(SubSeq(h, 2, Len(h)))

IsComplete(f) == Len(f) % 4 = 0
NumRecords(f) == Len(f) \div 4
RecordAt(f, k) == SubSeq(f, 4 * k - 3, 4 * k)
RecordId(f, k) == HeaderId(f[4 * k - 3])
FileIds(f) == {RecordId(f, k) : k \in 1..NumRecords(f)}

\* out holds exactly the records of f whose id is in keep, in f's order
IsSelection(f, keep, out) ==
    LET kept == {k \in 1..NumRecords(f) : RecordId(f, k) \in keep}
        rank(k) == Cardinality({i \in kept : i <= k})
    IN  /\ Len(out) = 4 * Cardinality(kept)
        /\ \A k \in kept : RecordAt(out, rank(k)) = RecordAt(f, k)

\* the read ids of the sample's BAM
BamIds == {fcFiles[1].bam.val[i].query_name : i \in 1..Len(fcFiles[1].bam.val)}

\* C1: after parseAssignments, the sample's assigned and unassigned sets are
\* disjoint and together hold every ReadID of the BAM (the claim as stated).
C1_DisjointCover ==
    cpc = "done" =>
        /\ TheSample.assignedIds \cap TheSample.unassignedIds = {}
        /\ TheSample.assignedIds \cup TheSample.unassignedIds = BamIds

\* C2: for a container of complete records and a keep-set that is not None,
\* _write_filtered_fastq writes exactly the records whose ReadID is in the
\* keep-set, unchanged and in order, and returns their number.
C2_WritesSelection ==
    (ppc /= "start" /\ inFastq.some /\ keepIds.some /\ IsComplete(inFastq.val)) =>
        /\ ppc = "done"
        /\ outFastq.some
        /\ IsSelection(inFastq.val, keepIds.val, outFastq.val)
        /\ written = NumRecords(outFastq.val)

\* C2 witness: a run that kept one record and dropped another, the kept one
\* having a header with a description after the id
C2_Witness ==
    /\ ppc = "done" /\ inFastq.some /\ keepIds.some /\ IsComplete(inFastq.val)
    /\ NumRecords(inFastq.val) = 3
    /\ written = 2
    /\ \E k \in 1..3 : /\ RecordId(inFastq.val, k) \in keepIds.val
                         /\ Len(inFastq.val[4 * k - 3]) > Len(RecordId(inFastq.val, k)) + 2

\* C5: with the keep-set equal to the set of all ReadIDs of a container of
\* complete records, the output is the input, line for line.
C5_RoundTrip ==
    (/\ ppc /= "start" /\ inFastq.some /\ keepIds.some /\ IsComplete(inFastq.val)
     /\ keepIds.val = FileIds(inFastq.val)) =>
        ppc = "done" /\ outFastq = inFastq

\* C5 witness: a round trip of three records, two of them with the same id
C5_Witness ==
    /\ ppc = "done" /\ inFastq.some /\ keepIds.some
    /\ NumRecords(inFastq.val) = 3 /\ IsComplete(inFastq.val)
    /\ keepIds.val = FileIds(inFastq.val)
    /\ Cardinality(FileIds(inFastq.val)) = 2
    /\ outFastq = inFastq

\* the read ids of a result's output file; none when no file was written
ResultIds(r) == IF r.out.some THEN FileIds(r.out.val) ELSE {}

\* the ids of the source records that fall in either set of the sample
SourceIdsInEither ==
    FileIds(inFastq.val) \cap (TheSample.assignedIds \cup TheSample.unassignedIds)

\* C3: the two outputs made from the Classifier's assigned and unassigned
\* sets share no ReadID and together hold the ids of the source records that
\* fall in either set (the claim as stated), for the Partitioner called
\* directly and for build_sequenceA/Ua_for_sample.
C3_SplitDisjointCover ==
    /\ spc \in {"splitUa", "builtA", "builtUa"} =>
            /\ ResultIds(splitA) \cap ResultIds(splitUa) = {}
            /\ ResultIds(splitA) \cup ResultIds(splitUa) = SourceIdsInEither
    /\ spc = "builtUa" =>
            /\ ResultIds(seqA) \cap ResultIds(seqUa) = {}
            /\ ResultIds(seqA) \cup ResultIds(seqUa) = SourceIdsInEither

\* C4: build_sequenceA_for_sample writes exactly the source records whose id
\* the Classifier put in the assigned set, build_sequenceUa_for_sample those
\* in the unassigned set, in the original order (the claim as stated).
C4_BuildersWriteSets ==
    /\ spc \in {"builtA", "builtUa"} =>
            /\ seqA.raised = "" /\ seqA.out.some
            /\ IsSelection(inFastq.val, TheSample.assignedIds, seqA.out.val)
    /\ spc = "builtUa" =>
            /\ seqUa.raised = "" /\ seqUa.out.some
            /\ IsSelection(inFastq.val, TheSample.unassignedIds, seqUa.out.val)

\* a line that is a hit: 14 fields and the newline, not a comment
IsHit(line) == ~IsCommentLine(line) /\ Len(line) = 15 /\ line[15] = Eol

\* the number a field reads as
Num(field) == float(field).val

\* the filter predicate of the specification, bounds inclusive
HitPasses(line) ==
    /\ Num(line[3]) >= thresholds.minPident
    /\ Num(line[13]) >= thresholds.minQcov
    /\ Num(line[11]) <= thresholds.maxEvalue

IsCandidate(line) == IsHit(line) /\ HitPasses(line)
PassingAt == {i \in 1..Len(blastTab) : IsCandidate(blastTab[i])}
PassingQueries == {blastTab[i][1] : i \in PassingAt}
Candidates(q) == {blastTab[i] : i \in {j \in PassingAt : blastTab[j][1] = q}}

\* the rows of the matched-hits table under its header
MatchRows == Tail(matchOut.val)

\* C6: the matched-hits table has the header, exactly one row for each
\* query_id with a passing hit, no other row, and every row is one of the
\* passing hit lines of the stream, all fields unchanged.
C6_OneRowPerQuery ==
    rpc /= "start" =>
        /\ rpc = "done" /\ matchOut.some
        /\ Head(matchOut.val) = MatchHeader
        /\ \A q \in PassingQueries :
               Cardinality({j \in 1..Len(MatchRows) : MatchRows[j][1] = q}) = 1
        /\ \A j \in 1..Len(MatchRows) : MatchRows[j] \in Candidates(MatchRows[j][1])

\* C6 witness: two rows from a stream of three passing hits, two of them of
\* one query
C6_Witness ==
    /\ rpc = "done" /\ Len(blastTab) = 3 /\ Cardinality(PassingAt) = 3
    /\ Cardinality(PassingQueries) = 2
    /\ Len(MatchRows) = 2

\* C7: every retained hit has the highest bit_score among its query's passing
\* candidates and, among those with that bit_score, the lowest e_value (the
\* claim as stated).
C7_BestByScoreThenEvalue ==
    rpc = "done" =>
        \A j \in 1..Len(MatchRows) : \A c \in Candidates(MatchRows[j][1]) :
            /\ Num(c[12]) <= Num(MatchRows[j][12])
            /\ Num(c[12]) = Num(MatchRows[j][12]) => Num(MatchRows[j][11]) <= Num(c[11])

\* C8: only hits with percent_identity >= min_pident, query_coverage >=
\* min_qcov and e_value <= max_evalue are retained, every query with such a
\* hit has its row, and the hits failing a threshold change nothing: the
\* table is the one their removal from the stream gives.
C8_FilterInclusive ==
    rpc /= "start" =>
        /\ rpc = "done"
        /\ \A j \in 1..Len(MatchRows) : HitPasses(MatchRows[j])
        /\ {MatchRows[j][1] : j \in 1..Len(MatchRows)} = PassingQueries
        /\ matchOut = filterAndSummarize(SelectSeq(blastTab, IsCandidate), thresholds).matchOut

\* C8 witness: a hit on all three bounds is retained although a hit of the
\* same query with a higher bit_score, failing the coverage bound, follows it
C8_Witness ==
    /\ rpc = "done"
    /\ \E i \in 1..Len(blastTab) : \E k \in (i + 1)..Len(blastTab) :
        /\ IsHit(blastTab[i]) /\ IsHit(blastTab[k])
        /\ Num(blastTab[i][3]) = thresholds.minPident
        /\ Num(blastTab[i][13]) = thresholds.minQcov
        /\ Num(blastTab[i][11]) = thresholds.maxEvalue
        /\ blastTab[k][1] = blastTab[i][1]
        /\ Num(blastTab[k][12]) > Num(blastTab[i][12])
        /\ Num(blastTab[k][13]) < thresholds.minQcov
        /\ \E j \in 1..Len(MatchRows) : MatchRows[j] = blastTab[i]

\* the files hold records only (every one can be opened)
AllOpenable == \A path \in DOMAIN srcFiles : srcFiles[path].some

\* the records of all source files, in file order: <<path, file, k>>
RECURSIVE RecordsFrom(_, _)
RecordsFrom(paths, i) ==
    IF i > Len(paths) THEN <<>>
    ELSE LET f == srcFiles[paths[i]].val
         IN  [k \in 1..NumRecords(f) |-> [path |-> paths[i], file |-> f, k |-> k]]
                 \o RecordsFrom(paths, i + 1)

SourceRecords == RecordsFrom(SortedPaths(DOMAIN srcFiles), 1)

\* the entries (2 lines each) of the FASTA file; none when it was not written
NumEntries == IF combinedFasta.some THEN Len(combinedFasta.val) \div 2 ELSE 0

Min(a, b) == IF a <= b THEN a ELSE b

\* the stem of a path: the text before its last "."
StemOf(path) ==
    LET dot == CHOOSE i \in 1..Len(path) :
                   path[i] = "." /\ \A j \in (i + 1)..Len(path) : path[j] /= "."
    IN  SubSeq(path, 1, dot - 1)

\* the identifier of entry k: the first token after the ">" marker
EntryId(k) == HeaderId(combinedFasta.val[2 * k - 1])

\* C9: once the Builder has been called with cap N on files that can all be
\* opened, the output holds exactly min(N, total number of records) entries
\* (the claim as stated).
C9_CapRespected ==
    (bpc /= "start" /\ AllOpenable) =>
        NumEntries = Min(sampleSize, Len(SourceRecords))

\* C10: every entry the Builder emitted has the identifier
\* {origin-file-stem}_{original-read-id} (the claim as stated).
C10_ProvenanceIds ==
    (bpc = "done" /\ AllOpenable) =>
        \A k \in 1..NumEntries :
            EntryId(k) = StemOf(SourceRecords[k].path) \o <<"_">>
                             \o RecordId(SourceRecords[k].file, SourceRecords[k].k)

\* the rows of the summary table under its header
SummaryRows == Tail(summaryOut.val)

\* the sample ids the summary table has rows for
SummarySampleIds == {SummaryRows[j][1] : j \in 1..Len(SummaryRows)}

\* the text of a query_id before its first "_", or the given sentinel when
\* the query_id has no "_"
BeforeFirstSeparator(queryId, sentinel) ==
    IF Len(queryId) > 1 THEN Field(queryId[1]) ELSE Field(sentinel)

\* C11: the sample id the summary uses for a retained hit is the part of its
\* query_id before the first "_", and the sentinel "Unknown" when the
\* query_id has no "_" (the claim as stated): the summary has rows for
\* exactly these sample ids.
C11_SampleIdOrUnknown ==
    rpc = "done" =>
        SummarySampleIds =
            {BeforeFirstSeparator(MatchRows[j][1], "Unknown") : j \in 1..Len(MatchRows)}

\* the (sample id, subject title) pair of a row of the matched-hits table,
\* the sample id as the Summary Aggregator derives it
GroupOf(row) == <<BeforeFirstSeparator(row[1], "Unknown Sample"), row[14]>>

\* the pairs among the retained hits, and the retained hits of one pair
RetainedGroups == {GroupOf(MatchRows[i]) : i \in 1..Len(MatchRows)}
RetainedIn(group) == {i \in 1..Len(MatchRows) : GroupOf(MatchRows[i]) = group}

\* the number a count field of the summary table spells
Decimal(n) == Field(<<"0", "1", "2", "3", "4", "5", "6", "7", "8", "9">>[n + 1])
CountAt(j) == CHOOSE n \in 0..9 : Decimal(n) = SummaryRows[j][3]

RECURSIVE SumOfCounts(_)
SumOfCounts(j) == IF j = 0 THEN 0 ELSE CountAt(j) + SumOfCounts(j - 1)

\* C12: the summary table has exactly one row per distinct (sample_id,
\* subject_title) pair among the retained hits, the row's count is the
\* number of retained hits of that pair, and the counts sum to the number of
\* rows of the matched-hits table.
C12_OneRowPerGroup ==
    rpc = "done" =>
        /\ Head(summaryOut.val) = SummaryHeader
        /\ \A j \in 1..Len(SummaryRows) :
               /\ <<SummaryRows[j][1], SummaryRows[j][2]>> \in RetainedGroups
               /\ SummaryRows[j][3] =
                      Decimal(Cardinality(RetainedIn(<<SummaryRows[j][1], SummaryRows[j][2]>>)))
        /\ \A g \in RetainedGroups :
               Cardinality({j \in 1..Len(SummaryRows) :
                   <<SummaryRows[j][1], SummaryRows[j][2]>> = g}) = 1
        /\ SumOfCounts(Len(SummaryRows)) = Len(MatchRows)

\* C12 witness: four retained hits in three pairs, one pair counted twice
C12_Witness ==
    /\ rpc = "done" /\ Len(MatchRows) = 4
    /\ Len(SummaryRows) = 3
    /\ \E j \in 1..3 : SummaryRows[j] = <<Field("S1"), Field("orgX"), Field("2"), Eol>>

\* the place of a pair's first hit in the hit stream, and of its first
\* retained hit in the matched-hits table
Least(S) == CHOOSE n \in S : \A m \in S : n <= m
FirstInStream(group) ==
    Least({i \in PassingAt : GroupOf(blastTab[i]) = group})
FirstRetained(group) == Least(RetainedIn(group))
SummaryGroup(j) == <<SummaryRows[j][1], SummaryRows[j][2]>>

\* sample_id ascending and, within one sample_id, count descending
SortedBySampleThenCount ==
    \A j, k \in 1..Len(SummaryRows) :
        j < k =>
            /\ StrRank(SummaryRows[j][1]) <= StrRank(SummaryRows[k][1])
            /\ SummaryRows[j][1] = SummaryRows[k][1] => CountAt(j) >= CountAt(k)

\* two rows of one sample with equal counts
IsTie(j, k) ==
    /\ j < k
    /\ SummaryRows[j][1] = SummaryRows[k][1]
    /\ CountAt(j) = CountAt(k)

\* C13 as stated: summary rows are sorted by sample_id ascending, then count
\* descending, and rows of one sample with equal counts are in the order
\* their pair was first encountered in the hit stream.
C13_TiesInStreamOrder ==
    rpc = "done" =>
        /\ SortedBySampleThenCount
        /\ \A j, k \in 1..Len(SummaryRows) :
               IsTie(j, k) =>
                   FirstInStream(SummaryGroup(j)) < FirstInStream(SummaryGroup(k))

\* C13 amended: summary rows are sorted by sample_id ascending, then count
\* descending, and rows of one sample with equal counts are in the order of
\* their pair's first retained hit in the matched-hits table.
C13_TiesInRetainedOrder ==
    rpc = "done" =>
        /\ SortedBySampleThenCount
        /\ \A j, k \in 1..Len(SummaryRows) :
               IsTie(j, k) =>
                   FirstRetained(SummaryGroup(j)) < FirstRetained(SummaryGroup(k))

\* C13 witness: the hit of a second sample comes first in the stream, and
\* two pairs of S1 tie where the query of the first was retained with a
\* later, better hit
C13_Witness ==
    /\ rpc = "done"
    /\ Len(blastTab) = 4 /\ blastTab[1][1] = <<"S2", "r1">>
    /\ SummaryRows = << <<Field("S1"), Field("orgZ"), Field("1"), Eol>>,
                        <<Field("S1"), Field("orgY"), Field("1"), Eol>>,
                        <<Field("S2"), Field("orgZ"), Field("1"), Eol>> >>

\* C14: when no hit of the stream passes the three thresholds (the empty
\* stream included), filterAndSummarize does not fail, the matched-hits
\* table is its 14-column header row only and the summary table is its
\* header row only.
C14_HeaderOnlyWhenNoHitPasses ==
    (rpc /= "start" /\ PassingAt = {}) =>
        /\ rpc = "done"
        /\ matchOut.some /\ summaryOut.some
        /\ Len(matchOut.val) = 1 /\ Len(summaryOut.val) = 1
        /\ matchOut.val[1] = MatchHeader /\ Len(MatchHeader) = 14 + 1
        /\ matchOut.val[1][Len(MatchHeader)] = Eol
        /\ summaryOut.val[1] = SummaryHeader

\* C14 witness: min_pident = 100 against a stream of hits none of which
\* reaches 100% identity
C14_Witness ==
    /\ rpc = "done"
    /\ thresholds.minPident = 100000000
    /\ Len(blastTab) >= 1
    /\ \A i \in 1..Len(blastTab) :
           IsHit(blastTab[i]) /\ Num(blastTab[i][3]) < 100000000
    /\ matchOut = Some(<<MatchHeader>>)

\* the records of the sample's BAM, and the tag each counter stands for
Bam == fcFiles[1].bam.val
CategoryTag(cat) ==
    CASE cat = "ASSIGNED" -> "Assigned"
      [] cat = "UNASSIGNED_UNMAPPED" -> "Unassigned_Unmapped"
      [] cat = "UNASSIGNED_NO_FEATURES" -> "Unassigned_NoFeatures"
      [] cat = "UNASSIGNED_MAPPING_QUALITY" -> "Unassigned_MappingQuality"
      [] cat = "UNASSIGNED_AMBIGUITY" -> "Unassigned_Ambiguous"
FiveKnownTags ==
    {CategoryTag(cat) : cat \in DOMAIN TheSample.categoryCounts}
HasTag(i, text) == Bam[i].XS = Some(text)
HasKnownTag(i) == \E t \in FiveKnownTags : HasTag(i, t)

RECURSIVE SumOver(_, _)
SumOver(counts, cats) ==
    IF cats = {} THEN 0
    ELSE LET c == CHOOSE x \in cats : TRUE
         IN  counts[c] + SumOver(counts, cats \ {c})

\* C15: a record tagged "Assigned" puts its ReadID in the assigned set and
\* counts under Assigned only; a record with one of the four known
\* unassigned tags puts its ReadID in the unassigned set and counts under
\* that tag only; a record with no tag or another tag puts its ReadID in the
\* unassigned set and counts nowhere. So each counter is the number of
\* records with its tag and the counters sum to the number of records with
\* one of the five known tags.
C15_CountersPerTag ==
    cpc = "done" =>
        /\ Cardinality(FiveKnownTags) = 5
        /\ TheSample.assignedIds =
               {Bam[i].query_name : i \in {j \in 1..Len(Bam) : HasTag(j, "Assigned")}}
        /\ TheSample.unassignedIds =
               {Bam[i].query_name : i \in {j \in 1..Len(Bam) : ~HasTag(j, "Assigned")}}
        /\ \A cat \in DOMAIN TheSample.categoryCounts :
               TheSample.categoryCounts[cat] =
                   Cardinality({i \in 1..Len(Bam) : HasTag(i, CategoryTag(cat))})
        /\ SumOver(TheSample.categoryCounts, DOMAIN TheSample.categoryCounts) =
               Cardinality({i \in 1..Len(Bam) : HasKnownTag(i)})

\* C15 witness: a BAM of an Assigned record, a record with a known
\* unassigned tag and a record with no tag or an unrecognized one
C15_Witness ==
    /\ cpc = "done" /\ Len(Bam) = 3
    /\ \E i \in 1..3 : HasTag(i, "Assigned")
    /\ \E i \in 1..3 : HasTag(i, "Unassigned_NoFeatures")
    /\ \E i \in 1..3 : ~HasKnownTag(i)
    /\ SumOver(TheSample.categoryCounts, DOMAIN TheSample.categoryCounts) = 2

\* the last record of the BAM with the given ReadID
LastRecordOf(id) ==
    CHOOSE i \in 1..Len(Bam) :
        /\ Bam[i].query_name = id
        /\ \A j \in 1..Len(Bam) : Bam[j].query_name = id => j <= i

\* C16: a ReadID with several tag records is in exactly the set its most
\* recent tag implies: in the assigned set only when its last tag is
\* "Assigned", in the unassigned set only otherwise (the claim as stated).
C16_LastTagWins ==
    cpc = "done" =>
        \A id \in BamIds :
            /\ id \in TheSample.assignedIds <=> HasTag(LastRecordOf(id), "Assigned")
            /\ id \in TheSample.unassignedIds <=> ~HasTag(LastRecordOf(id), "Assigned")

\* the samples whose per-read assignment file does not exist
MissingFiles == {i \in 1..Len(fcFiles) : ~fcFiles[i].bam.some}

\* C17: if the per-read assignment file of any sample does not exist,
\* parseAssignments fails with FileNotFoundError and returns no mapping, not
\* even for the samples parsed before the missing one; with every file
\* present it returns a mapping with every sample.
C17_MissingFileFails ==
    cpc /= "start" =>
        IF MissingFiles /= {}
        THEN cpc = "FileNotFoundError" /\ assignments = None
        ELSE /\ cpc = "done" /\ assignments.some
             /\ DOMAIN assignments.val = {fcFiles[i].sampleId : i \in 1..Len(fcFiles)}

\* C17 witness: the first sample's file exists and has records, the second
\* sample's file is missing
C17_Witness ==
    /\ cpc = "FileNotFoundError"
    /\ Len(fcFiles) = 2
    /\ fcFiles[1].bam.some /\ Len(fcFiles[1].bam.val) >= 1
    /\ ~fcFiles[2].bam.some
    /\ assignments = None

\* the complete records of a container: its lines up to the last record
\* that has all four
CompletePart(f) == SubSeq(f, 1, 4 * NumRecords(f))

\* C18: if the container ends inside a record, _write_filtered_fastq stops
\* without raising, the incomplete trailing record is not written, and the
\* output is exactly the kept records among the complete records before it.
C18_TruncatedTail ==
    (ppc /= "start" /\ inFastq.some /\ keepIds.some /\ ~IsComplete(inFastq.val)) =>
        /\ ppc = "done"
        /\ outFastq.some
        /\ IsComplete(outFastq.val)
        /\ IsSelection(CompletePart(inFastq.val), keepIds.val, outFastq.val)
        /\ written = NumRecords(outFastq.val)

\* C18 witness: two complete records and a third cut after its separator
\* line, its ReadID in the keep-set, one of the complete records kept
C18_Witness ==
    /\ ppc = "done" /\ inFastq.some /\ keepIds.some
    /\ Len(inFastq.val) = 4 * 2 + 3
    /\ HeaderId(inFastq.val[9]) \in keepIds.val
    /\ written = 1
    /\ Len(outFastq.val) = 4

\* C19: when the keep-set is None, _write_filtered_fastq creates an empty
\* output file and returns 0 without raising, whether or not the input file
\* exists and whatever it holds.
C19_NoKeepSetEmptyOutput ==
    (ppc /= "start" /\ ~keepIds.some) =>
        /\ ppc = "done"
        /\ outFastq = Some(<<>>)
        /\ written = 0

\* C19 witness: no keep-set, an input of three complete records
C19_Witness ==
    /\ ppc = "done" /\ ~keepIds.some
    /\ inFastq.some /\ IsComplete(inFastq.val) /\ NumRecords(inFastq.val) = 3
    /\ outFastq = Some(<<>>) /\ written = 0

\* C20: when no input path can be located for the sample, the builders of
\* the Partitioner create an empty output file, report 0 records written
\* and raise nothing, so that the other samples are still processed (the
\* claim as stated).
C20_NoInputEmptyOutput ==
    sampleOutputs = StarSampleOutputs =>
        /\ spc \in {"builtA", "builtUa"} =>
               seqA.raised = "" /\ seqA.out = Some(<<>>) /\ seqA.written = 0
        /\ spc = "builtUa" =>
               seqUa.raised = "" /\ seqUa.out = Some(<<>>) /\ seqUa.written = 0

\* the paths of the source files that can be opened, in path order, and
\* their records
OpenablePaths ==
    LET open == {path \in DOMAIN srcFiles : srcFiles[path].some}
    IN  CHOOSE s \in [1..Cardinality(open) -> open] :
            \A i, j \in 1..Cardinality(open) : i < j => PathRank(s[i]) < PathRank(s[j])
OpenableRecords == RecordsFrom(OpenablePaths, 1)

\* C21: if a source file of the Builder's input list cannot be opened, the
\* Builder skips it, the build ends normally and the output holds the
\* entries of every other source file, in order (the claim as stated).
C21_UnopenableSkipped ==
    (bpc \in {"done", "FileNotFoundError"} /\ ~AllOpenable) =>
        /\ bpc = "done"
        /\ combinedFasta.some
        /\ NumEntries = Len(OpenableRecords)
        /\ \A k \in 1..NumEntries :
               EntryId(k) = RecordId(OpenableRecords[k].file, OpenableRecords[k].k)

\* the source files in path order, stated without the Builder's sort, and
\* their records
FilesInPathOrder ==
    CHOOSE s \in [1..Cardinality(DOMAIN srcFiles) -> DOMAIN srcFiles] :
        \A i, j \in 1..Cardinality(DOMAIN srcFiles) :
            i < j => PathRank(s[i]) < PathRank(s[j])
RecordsInOrder == RecordsFrom(FilesInPathOrder, 1)

\* a line without the newline that ends it
Chomp(line) == SubSeq(line, 1, Len(line) - 1)

\* C22: the Builder's output lists the entries in source-file order (files
\* sorted by path), the entries of one file in their order in the file;
\* each entry is two lines, the record's header with "@" replaced by ">"
\* and its sequence; the separator and quality lines are not written.
C22_EntriesInOrder ==
    (bpc = "done" /\ AllOpenable) =>
        /\ combinedFasta.some
        /\ Len(combinedFasta.val) = 2 * Len(RecordsInOrder)
        /\ \A k \in 1..Len(RecordsInOrder) :
               LET rec == RecordAt(RecordsInOrder[k].file, RecordsInOrder[k].k)
               IN  /\ rec[1][1] = "@"
                   /\ combinedFasta.val[2 * k - 1] =
                          <<">">> \o SubSeq(Chomp(rec[1]), 2, Len(rec[1]) - 1) \o <<NL>>
                   /\ combinedFasta.val[2 * k] = rec[2]

\* C22 witness: two files of two records each, four entries written
C22_Witness ==
    /\ bpc = "done" /\ AllOpenable
    /\ Cardinality(DOMAIN srcFiles) = 2
    /\ \A path \in DOMAIN srcFiles : NumRecords(srcFiles[path].val) = 2
    /\ srcFiles[PathA].val /= srcFiles[PathB].val
    /\ Len(combinedFasta.val) = 8

\* C23: a second run of the Builder on the same source files leaves the
\* output of the first run as it was, and ends as the first run ended,
\* whatever the order in which the file system enumerates the files and
\* whatever the first run left in the output file.
C23_SecondRunIdentical ==
    [][bpc' \in {"done again", "failed again"} =>
           /\ combinedFasta' = combinedFasta
           /\ bpc' = "done again" <=> bpc = "done"]_vars

\* C23 witness: a second run over two files with different records, the
\* output holding the entries of both
C23_Witness ==
    /\ bpc = "done again"
    /\ DOMAIN srcFiles = {PathA, PathB}
    /\ NumRecords(srcFiles[PathA].val) = 2 /\ NumRecords(srcFiles[PathB].val) = 1
    /\ Len(combinedFasta.val) = 6

\* a hit line whose four numeric fields all read as numbers
NumericColumns == {3, 11, 12, 13}
IsWellFormed(line) ==
    IsHit(line) /\ \A c \in NumericColumns : float(line[c]).raised = ""
WellFormedPassing ==
    {i \in 1..Len(blastTab) : IsWellFormed(blastTab[i]) /\ HitPasses(blastTab[i])}

\* C24: no line of the hit stream aborts the Resolver: comment lines, blank
\* lines and malformed lines (fewer than 14 fields, or a field missing or
\* unparseable) are passed over and the lines after them are still
\* processed, so the run ends normally and the matched-hits table has a row
\* for every query with a well-formed passing hit, and only such rows (the
\* claim as stated).
C24_NoLineAborts ==
    rpc /= "start" =>
        /\ rpc = "done" /\ matchOut.some
        /\ \A i \in WellFormedPassing :
               \E j \in 1..Len(MatchRows) : MatchRows[j][1] = blastTab[i][1]
        /\ \A j \in 1..Len(MatchRows) :
               \E i \in WellFormedPassing : MatchRows[j] = blastTab[i]

\* the reduction order: a is strictly better than b with a higher bit score
\* or, at equal bit score, a lower e-value
StrictlyBetter(a, b) ==
    \/ Num(a[12]) > Num(b[12])
    \/ Num(a[12]) = Num(b[12]) /\ Num(a[11]) < Num(b[11])

\* where a retained row first appears in the stream as a passing candidate
FirstAt(row) == Least({i \in PassingAt : blastTab[i] = row})

\* C25: of passing candidates of one query with equal bit_score and equal
\* e_value the one that came first in the stream is retained, and a hit is
\* retained in place of earlier candidates only when it is strictly better
\* than each of them under the reduction order.
C25_FirstSeenWins ==
    rpc = "done" =>
        \A j \in 1..Len(MatchRows) : \A i \in PassingAt :
            blastTab[i][1] = MatchRows[j][1] =>
                /\ i < FirstAt(MatchRows[j]) => StrictlyBetter(MatchRows[j], blastTab[i])
                /\ (/\ Num(blastTab[i][12]) = Num(MatchRows[j][12])
                    /\ Num(blastTab[i][11]) = Num(MatchRows[j][11]))
                       => FirstAt(MatchRows[j]) <= i

\* C25 witness: two candidates of S1_r1 with equal bit score and e-value and
\* different subject titles, then a lower-scoring one; the first is retained
C25_Witness ==
    /\ rpc = "done" /\ Len(blastTab) = 3
    /\ \A i \in 1..3 : blastTab[i][1] = <<"S1", "r1">>
    /\ Num(blastTab[1][12]) = Num(blastTab[2][12])
    /\ Num(blastTab[1][11]) = Num(blastTab[2][11])
    /\ blastTab[1] /= blastTab[2]
    /\ Num(blastTab[3][12]) < Num(blastTab[1][12])
    /\ MatchRows = <<blastTab[1]>>

\* the matched-hits table of the run had it not been stopped
CompletedMatchOut == filterAndSummarize(blastTab, thresholds).matchOut.val

\* C26: when the Resolver is stopped at an arbitrary point, what it leaves
\* is a well-formed matched-hits table, at least its header row, and a
\* prefix of the table of the completed run, rather than no file (the
\* claim as stated, for the Resolver).
C26_StoppedLeavesPrefix ==
    rpc = "stopped" =>
        /\ matchOut.some
        /\ Len(matchOut.val) >= 1
        /\ Len(matchOut.val) <= Len(CompletedMatchOut)
        /\ matchOut.val = SubSeq(CompletedMatchOut, 1, Len(matchOut.val))

====
